---------------------------- MODULE Spec2Model ----------------------------
(***************************************************************************)
(* Client-side state machines of NyayMitra:                                *)
(*   - RightsCardGenerator, the three-step modal wizard                    *)
(*   - RightsCardGenerator, the single-page variant                        *)
(*   - NyayMitraApp, the chat page with a persisted chat list              *)
(*   - ChatInterface, the chat page without history                        *)
(* Every React event handler is one action.  A fetch is a message in       *)
(* flight: the handler sends the request, the server answers it, and the   *)
(* rest of the async handler (the code after the await) runs as a          *)
(* separate action on the values its closure captured.                     *)
(* Strings that the code inspects (error messages, typed text) are         *)
(* sequences of tokens; String.includes is a search over the tokens and    *)
(* String.trim strips blank tokens at both ends.                           *)
(***************************************************************************)
EXTENDS Integers, Sequences, FiniteSets, TLC

\* ------------------------------------------------------------------------
\* Strings
\* ------------------------------------------------------------------------

\* String.prototype.includes, for a needle that is one token
Includes(msg, needle) == \E i \in 1..Len(msg) : msg[i] = needle

\* the two substrings by which the catch blocks recognise a network failure
IsNetworkFailure(msg) == Includes(msg, "Failed to fetch") \/ Includes(msg, "ECONNREFUSED")

\* errData.detail || `Server error: ${response.status}`
ErrorOfResponse(resp) ==
    IF resp.detail # <<>> THEN resp.detail ELSE <<"Server error: ", resp.status>>

\* ------------------------------------------------------------------------
\* Rights-card wizard: constants
\* ------------------------------------------------------------------------

SITUATIONS == {"arrested", "evicted", "fired", "cheated"}

LANGUAGES == {"English", "Hindi", "Kannada"}

NoSituation == "null"

NoError == <<>>

NoCard == [kind |-> "null"]

Idle == [status |-> "idle"]

\* values of the location prop handed down by the parent page
Locations == {"Bengaluru, Karnataka", "Mysuru"}

\* HTTP status codes of non-2xx answers
ErrorStatuses == {"500"}

\* the detail field of a non-2xx body; <<>> when the body has none
Details == { <<>>,
             <<"Invalid request">>,
             <<"Failed to fetch", " from model">> }

\* messages of errors thrown by fetch() or by response.json()
ThrownMessages == { <<"Failed to fetch">>, <<"Load failed">> }

VARIABLES
    \* RightsCardGenerator (wizard)
    step, selectedSituation, selectedLanguage, isGenerating, cardData, error,
    isOpen, wizLocation, wizFetch, wizDownload,
    \* RightsCardGenerator (page)
    situation, language, loading, pageCardData, pageError, pageFetch,
    \* NyayMitraApp
    messages, isLoading, appError, activeCategory, chatHistory, activeChatId,
    sessionId, stored, now, appFetch,
    \* ChatInterface
    ciMessages, inputValue, location, ciIsLoading, ciError, ciActiveCategory,
    ciSessionId, ciFetch,
    \* the component the behaviour exercises, and the number of requests it
    \* has sent to /api/chat
    mounted, requests,
    \* the backend: whether credentials of the hosted model are configured,
    \* the request being handled, its response, the lawyer directory
    credentials, beRequest, beResponse, directory,
    \* GradientAIChatInput: its state, and the props disabled and onSend
    \* (TRUE when the parent passes a callback)
    inputMessage, isDropdownOpen, attachedFiles, selectedOption, disabled, onSend,
    \* Sidebar: the chatHistory prop, the clock at the render, and the groups
    \* the render computes
    sidebarHistory, sidebarNow, groups,
    \* the handler that ran last, with its arguments
    lastOp

wizVars == <<step, selectedSituation, selectedLanguage, isGenerating, cardData,
             error, isOpen, wizLocation, wizFetch, wizDownload>>

pageVars == <<situation, language, loading, pageCardData, pageError, pageFetch>>

appVars == <<messages, isLoading, appError, activeCategory, chatHistory,
             activeChatId, sessionId, stored, now, appFetch>>

ciVars == <<ciMessages, inputValue, location, ciIsLoading, ciError,
            ciActiveCategory, ciSessionId, ciFetch>>

beVars == <<credentials, beRequest, beResponse, directory>>

inputVars == <<inputMessage, isDropdownOpen, attachedFiles, selectedOption,
               disabled, onSend>>

sidebarVars == <<sidebarHistory, sidebarNow, groups>>

vars == <<wizVars, pageVars, appVars, ciVars, beVars, inputVars, sidebarVars, mounted,
          requests, lastOp>>

\* an action of one component leaves the other components alone
WizOnly ==
    mounted = "RightsCardGenerator"
    /\ UNCHANGED <<pageVars, appVars, ciVars, beVars, inputVars, sidebarVars, mounted, requests>>

PageOnly ==
    UNCHANGED <<wizVars, appVars, ciVars, beVars, inputVars, sidebarVars, mounted, requests>>

AppOnly ==
    mounted = "NyayMitraApp"
    /\ UNCHANGED <<wizVars, pageVars, ciVars, beVars, inputVars, sidebarVars, mounted>>

ChatInterfaceOnly ==
    mounted = "ChatInterface"
    /\ UNCHANGED <<wizVars, pageVars, appVars, beVars, inputVars, sidebarVars, mounted>>

BackendOnly ==
    mounted = "api"
    /\ UNCHANGED <<wizVars, pageVars, appVars, ciVars, inputVars, sidebarVars, mounted,
                   requests>>

InputOnly ==
    mounted = "GradientAIChatInput"
    /\ UNCHANGED <<wizVars, pageVars, appVars, ciVars, beVars, sidebarVars, mounted,
                   requests>>

SidebarOnly ==
    mounted = "Sidebar"
    /\ UNCHANGED <<wizVars, pageVars, appVars, ciVars, beVars, inputVars, mounted,
                   requests>>

\* no request is sent
NoRequest == UNCHANGED requests

WizInit ==
    /\ step = "select"
    /\ selectedSituation = NoSituation
    /\ selectedLanguage = "English"
    /\ isGenerating = FALSE
    /\ cardData = NoCard
    /\ error = NoError
    /\ isOpen = FALSE
    /\ wizLocation = "Bengaluru, Karnataka"
    /\ wizFetch = Idle
    /\ wizDownload = FALSE

\* ------------------------------------------------------------------------
\* Rights-card wizard: handlers
\* ------------------------------------------------------------------------

\* parent: setShowRightsCard(true)
OpenWizard ==
    /\ WizOnly
    /\ ~isOpen
    /\ isOpen' = TRUE
    /\ lastOp' = [op |-> "open"]
    /\ UNCHANGED <<step, selectedSituation, selectedLanguage, isGenerating,
                   cardData, error, wizLocation, wizFetch, wizDownload>>

\* variant: closing the modal starts the wizard over
CloseWizard_Restart ==
    /\ WizOnly
    /\ isOpen
    /\ isOpen' = FALSE
    /\ step' = "select"
    /\ selectedSituation' = NoSituation
    /\ cardData' = NoCard
    /\ lastOp' = [op |-> "close"]
    /\ UNCHANGED <<selectedLanguage, isGenerating, error, wizLocation, wizFetch,
                   wizDownload>>

\* onClose: the component stays mounted and keeps its state
CloseWizard ==
    /\ WizOnly
    /\ isOpen
    /\ isOpen' = FALSE
    /\ lastOp' = [op |-> "close"]
    /\ UNCHANGED <<step, selectedSituation, selectedLanguage, isGenerating,
                   cardData, error, wizLocation, wizFetch, wizDownload>>

\* the parent re-renders with another location (its input is behind the modal)
SetWizLocation(loc) ==
    /\ WizOnly
    /\ ~isOpen
    /\ loc # wizLocation
    /\ wizLocation' = loc
    /\ lastOp' = [op |-> "setLocation"]
    /\ UNCHANGED <<step, selectedSituation, selectedLanguage, isGenerating,
                   cardData, error, isOpen, wizFetch, wizDownload>>

handleSituationSelect(situationId) ==
    /\ WizOnly
    /\ isOpen /\ step = "select"
    /\ selectedSituation' = situationId
    /\ step' = "configure"
    /\ lastOp' = [op |-> "handleSituationSelect"]
    /\ UNCHANGED <<selectedLanguage, isGenerating, cardData, error, isOpen,
                   wizLocation, wizFetch, wizDownload>>

\* language pill
setSelectedLanguage(lang) ==
    /\ WizOnly
    /\ isOpen /\ step = "configure"
    /\ selectedLanguage' = lang
    /\ lastOp' = [op |-> "setSelectedLanguage"]
    /\ UNCHANGED <<step, selectedSituation, isGenerating, cardData, error,
                   isOpen, wizLocation, wizFetch, wizDownload>>

WizRequestBody ==
    [situation |-> selectedSituation,
     language  |-> selectedLanguage,
     location  |-> wizLocation]

\* variant: the button is not disabled while isGenerating
handleGenerate_NotDisabled ==
    /\ WizOnly
    /\ isOpen /\ step = "configure"
    /\ IF selectedSituation = NoSituation
       THEN /\ lastOp' = [op |-> "handleGenerate:return"]
            /\ UNCHANGED wizVars
       ELSE /\ isGenerating' = TRUE
            /\ error' = NoError
            /\ wizFetch' = [status |-> "pending", body |-> WizRequestBody]
            /\ lastOp' = [op |-> "handleGenerate"]
            /\ UNCHANGED <<step, selectedSituation, selectedLanguage, cardData,
                           isOpen, wizLocation, wizDownload>>

\* handleGenerate up to the await of fetch; the button is disabled while
\* isGenerating
handleGenerate ==
    /\ WizOnly
    /\ isOpen /\ step = "configure" /\ ~isGenerating
    /\ IF selectedSituation = NoSituation
       THEN /\ lastOp' = [op |-> "handleGenerate:return"]
            /\ UNCHANGED wizVars
       ELSE /\ isGenerating' = TRUE
            /\ error' = NoError
            /\ wizFetch' = [status |-> "pending", body |-> WizRequestBody]
            /\ lastOp' = [op |-> "handleGenerate"]
            /\ UNCHANGED <<step, selectedSituation, selectedLanguage, cardData,
                           isOpen, wizLocation, wizDownload>>

\* the card the server builds for a request
CardFor(body) ==
    [kind |-> "card", situation |-> body.situation, language |-> body.language]

\* the answers POST /api/rights-card can get
WizResponses(body) ==
    { [status |-> "ok", body |-> body, card |-> CardFor(body)] }
    \cup { [status |-> "error", body |-> body, code |-> c, detail |-> d] :
             c \in ErrorStatuses, d \in Details }
    \cup { [status |-> "thrown", body |-> body, message |-> m] : m \in ThrownMessages }

WizServerRespond ==
    /\ WizOnly
    /\ wizFetch.status = "pending"
    /\ wizFetch' \in WizResponses(wizFetch.body)
    /\ lastOp' = [op |-> "server"]
    /\ UNCHANGED <<step, selectedSituation, selectedLanguage, isGenerating,
                   cardData, error, isOpen, wizLocation, wizDownload>>

\* the message the catch block of handleGenerate sees
WizCaughtMessage(resp) ==
    IF resp.status = "error"
    THEN ErrorOfResponse([detail |-> resp.detail, status |-> resp.code])
    ELSE resp.message

\* the error the catch block of handleGenerate shows
WizErrorShown(message) ==
    IF IsNetworkFailure(message)
    THEN <<"Backend not connected. Please start the backend server.">>
    ELSE message

\* variant: a failed request is sent again
handleGenerateSettle_Retry ==
    /\ WizOnly
    /\ wizFetch.status \in {"ok", "error", "thrown"}
    /\ IF wizFetch.status = "ok"
       THEN /\ cardData' = wizFetch.card
            /\ step' = "result"
            /\ isGenerating' = FALSE
            /\ wizFetch' = Idle
       ELSE /\ wizFetch' = [status |-> "pending", body |-> wizFetch.body]
            /\ UNCHANGED <<cardData, step, isGenerating>>
    /\ lastOp' = [op |-> "handleGenerate:settle"]
    /\ UNCHANGED <<error, selectedSituation, selectedLanguage, isOpen, wizLocation,
                   wizDownload>>

\* handleGenerate after the await: try / catch / finally
handleGenerateSettle ==
    /\ WizOnly
    /\ wizFetch.status \in {"ok", "error", "thrown"}
    /\ IF wizFetch.status = "ok"
       THEN /\ cardData' = wizFetch.card
            /\ step' = "result"
            /\ UNCHANGED error
       ELSE /\ error' = WizErrorShown(WizCaughtMessage(wizFetch))
            /\ UNCHANGED <<cardData, step>>
    /\ isGenerating' = FALSE
    /\ wizFetch' = Idle
    /\ lastOp' = [op |-> "handleGenerate:settle"]
    /\ UNCHANGED <<selectedSituation, selectedLanguage, isOpen, wizLocation,
                   wizDownload>>

\* variant: going back from the result keeps the card
handleBack_KeepCard ==
    /\ WizOnly
    /\ isOpen /\ step # "select"
    /\ IF step = "result"
       THEN /\ step' = "configure"
            /\ UNCHANGED <<selectedSituation, cardData>>
       ELSE /\ step' = "select"
            /\ selectedSituation' = NoSituation
            /\ UNCHANGED cardData
    /\ lastOp' = [op |-> "handleBack"]
    /\ UNCHANGED <<selectedLanguage, isGenerating, error, isOpen, wizLocation,
                   wizFetch, wizDownload>>

\* the back button is rendered when step # "select"
handleBack ==
    /\ WizOnly
    /\ isOpen /\ step # "select"
    /\ IF step = "result"
       THEN /\ step' = "configure"
            /\ cardData' = NoCard
            /\ UNCHANGED selectedSituation
       ELSE /\ step' = "select"
            /\ selectedSituation' = NoSituation
            /\ UNCHANGED cardData
    /\ lastOp' = [op |-> "handleBack"]
    /\ UNCHANGED <<selectedLanguage, isGenerating, error, isOpen, wizLocation,
                   wizFetch, wizDownload>>

\* "Generate Another", rendered with the card
handleReset ==
    /\ WizOnly
    /\ isOpen /\ step = "result" /\ cardData # NoCard
    /\ step' = "select"
    /\ selectedSituation' = NoSituation
    /\ selectedLanguage' = "English"
    /\ cardData' = NoCard
    /\ error' = NoError
    /\ lastOp' = [op |-> "handleReset"]
    /\ UNCHANGED <<isGenerating, isOpen, wizLocation, wizFetch, wizDownload>>

\* handleDownload up to its first await; cardRef.current is set while the
\* card is rendered
handleDownload ==
    /\ WizOnly
    /\ isOpen /\ step = "result" /\ cardData # NoCard
    /\ wizDownload' = TRUE
    /\ lastOp' = [op |-> "handleDownload"]
    /\ UNCHANGED <<step, selectedSituation, selectedLanguage, isGenerating,
                   cardData, error, isOpen, wizLocation, wizFetch>>

\* handleDownload after the await: the canvas is saved, or the catch block
\* reports the failure
handleDownloadSettle(ok) ==
    /\ WizOnly
    /\ wizDownload
    /\ wizDownload' = FALSE
    /\ error' = IF ok THEN error ELSE <<"Failed to download. Please try again.">>
    /\ lastOp' = [op |-> "handleDownload:settle"]
    /\ UNCHANGED <<step, selectedSituation, selectedLanguage, isGenerating,
                   cardData, isOpen, wizLocation, wizFetch>>

\* ------------------------------------------------------------------------
\* Rights-card page (the variant without steps)
\* ------------------------------------------------------------------------

PAGE_SITUATIONS == {"Arrested by Police", "Evicted without notice", "Fired unlawfully",
                    "Cheated by a vendor", "Domestic violence", "Online fraud/scam"}

PAGE_LANGUAGES == {"English", "Hindi", "Kannada", "Tamil", "Telugu", "Marathi"}

\* messages of errors thrown by fetch(); <<>> is an error without a message
PageThrownMessages == { <<"Failed to fetch">>, <<>> }

PageInit ==
    /\ situation = "Arrested by Police"
    /\ language = "English"
    /\ loading = FALSE
    /\ pageCardData = NoCard
    /\ pageError = <<>>
    /\ pageFetch = Idle

setSituation(s) ==
    /\ PageOnly
    /\ situation' = s
    /\ lastOp' = [op |-> "setSituation"]
    /\ UNCHANGED <<language, loading, pageCardData, pageError, pageFetch>>

setLanguage(l) ==
    /\ PageOnly
    /\ language' = l
    /\ lastOp' = [op |-> "setLanguage"]
    /\ UNCHANGED <<situation, loading, pageCardData, pageError, pageFetch>>

\* JSON.stringify({ situation, language })
PageRequestBody == [situation |-> situation, language |-> language]

\* handleGenerate up to the await of fetch; the button is disabled while
\* loading
Page_handleGenerate ==
    /\ PageOnly
    /\ ~loading
    /\ loading' = TRUE
    /\ pageError' = <<>>
    /\ pageCardData' = NoCard
    /\ pageFetch' = [status |-> "pending", body |-> PageRequestBody]
    /\ lastOp' = [op |-> "Page.handleGenerate"]
    /\ UNCHANGED <<situation, language>>

PageResponses(body) ==
    { [status |-> "ok", body |-> body, card |-> CardFor(body)],
      [status |-> "error", body |-> body] }
    \cup { [status |-> "thrown", body |-> body, message |-> m] : m \in PageThrownMessages }

PageServerRespond ==
    /\ PageOnly
    /\ pageFetch.status = "pending"
    /\ pageFetch' \in PageResponses(pageFetch.body)
    /\ lastOp' = [op |-> "server"]
    /\ UNCHANGED <<situation, language, loading, pageCardData, pageError>>

\* err.message || "An error occurred"
PageErrorShown(resp) ==
    IF resp.status = "error" THEN <<"Failed to generate card">>
    ELSE IF resp.message # <<>> THEN resp.message
    ELSE <<"An error occurred">>

\* handleGenerate after the await: try / catch / finally
Page_handleGenerateSettle ==
    /\ PageOnly
    /\ pageFetch.status \in {"ok", "error", "thrown"}
    /\ IF pageFetch.status = "ok"
       THEN /\ pageCardData' = pageFetch.card
            /\ UNCHANGED pageError
       ELSE /\ pageError' = PageErrorShown(pageFetch)
            /\ UNCHANGED pageCardData
    /\ loading' = FALSE
    /\ pageFetch' = Idle
    /\ lastOp' = [op |-> "Page.handleGenerate:settle"]
    /\ UNCHANGED <<situation, language>>

\* ------------------------------------------------------------------------
\* NyayMitraApp: constants and helpers
\* ------------------------------------------------------------------------

\* most requests to /api/chat in one visit
MaxRequests == 2

\* last value of the clock Date.now() reads
MaxNow == 2

APP_LOCATION == "Bengaluru, Karnataka"

NoChatId == [kind |-> "null"]

NoCategory == "undefined"

\* the sidebar categories the model clicks, as catId :> label
SidebarCategories == [family |-> "Family & Marriage"]

\* the categories /api/chat answers with
ReplyCategories == {"property"}

Replies == { <<"You have the right to ...">> }

\* typed texts, one token per character
Texts == { <<>>, <<" ", " ">>, <<" ", "h", "i", " ">> }

\* Math.random().toString(36).slice(2, 8): every call gives another string;
\* the string drawn for the n-th request is n, and 0 is the one of a chat
\* of an earlier visit
RandomParts == 0..MaxRequests

RECURSIVE TrimStart(_)
TrimStart(t) == IF t # <<>> /\ Head(t) = " " THEN TrimStart(Tail(t)) ELSE t

RECURSIVE TrimEnd(_)
TrimEnd(t) ==
    IF t # <<>> /\ t[Len(t)] = " " THEN TrimEnd(SubSeq(t, 1, Len(t) - 1)) ELSE t

\* variant: only leading blanks are stripped
Trim_StartOnly(t) == TrimStart(t)

\* String.prototype.trim
Trim(t) == TrimEnd(TrimStart(t))

\* `chat_${Date.now()}_${Math.random()...}`
generateId(t, r) == [kind |-> "chat", t |-> t, r |-> r]

\* `session_${Date.now()}`
SessionOfTime(t) == [kind |-> "session", t |-> t]

\* `session_${id}`
SessionOfChat(id) == [kind |-> "session", chat |-> id]

\* a Message; the timestamp is a Date in memory and a string in JSON
UserMsg(content) == [role |-> "user", content |-> content, timestamp |-> "Date"]

BotMsg(content, category) ==
    [role |-> "bot", content |-> content, timestamp |-> "Date", category |-> category]

BackendNotConnected == <<"Backend not connected", " ... NALSA Toll-Free: 15100 ...">>

StringifyMsg(m) == [m EXCEPT !.timestamp = "string"]

StringifyChat(c) ==
    [c EXCEPT !.messages = [i \in 1..Len(c.messages) |-> StringifyMsg(c.messages[i])]]

\* JSON.parse(JSON.stringify(chats)): a Date comes back as a string
JsonOfChats(chats) == [i \in 1..Len(chats) |-> StringifyChat(chats[i])]

\* localStorage.getItem(STORAGE_KEY): null, or the JSON text of a chat list
NoItem == [kind |-> "null"]

\* localStorage.setItem(STORAGE_KEY, JSON.stringify(chats))
saveChats(chats) == [kind |-> "json", chats |-> JsonOfChats(chats)]

\* a stored text that JSON.parse rejects
Unreadable == [kind |-> "unreadable"]

\* variant: the stored list is not read back
loadChats_Empty(raw) == <<>>

\* try { raw ? JSON.parse(raw) : [] } catch { [] }
loadChats(raw) == IF raw \in {NoItem, Unreadable} THEN <<>> ELSE raw.chats

\* a chat stored by an earlier visit
EarlierChat ==
    [id |-> generateId(0, 0),
     title |-> <<"h", "i">>,
     messages |-> << UserMsg(<<"h", "i">>), BotMsg(<<"You have the right to ...">>, NoCategory) >>,
     createdAt |-> 0]

\* what localStorage holds under STORAGE_KEY when the page is opened
InitialStorage == { NoItem, Unreadable, saveChats(<<EarlierChat>>) }

\* first index with c.id = chatId, 0 for findIndex's -1
FindIndex(chats, chatId) ==
    IF \E i \in 1..Len(chats) : chats[i].id = chatId
    THEN CHOOSE i \in 1..Len(chats) :
            /\ chats[i].id = chatId
            /\ \A j \in 1..(i - 1) : chats[j].id # chatId
    ELSE 0

\* content.slice(0, 50) + (content.length > 50 ? "..." : ""); typed texts
\* have one token per character and the fixed phrases are shorter than 50
TitleOf(msgs) ==
    IF \E i \in 1..Len(msgs) : msgs[i].role = "user"
    THEN LET k == CHOOSE i \in 1..Len(msgs) :
                    /\ msgs[i].role = "user"
                    /\ \A j \in 1..(i - 1) : msgs[j].role # "user"
             c == msgs[k].content
         IN  IF Len(c) > 50 THEN SubSeq(c, 1, 50) \o <<"...">> ELSE c
    ELSE <<"New Chat">>

\* variant: the entry is always prepended
UpsertChat_AlwaysPrepend(prev, chatId, msgs, t) ==
    <<[id |-> chatId, title |-> TitleOf(msgs), messages |-> msgs, createdAt |-> t]>> \o prev

\* the updater passed to setChatHistory in saveCurrentChat
UpsertChat(prev, chatId, msgs, t) ==
    LET existing == FindIndex(prev, chatId)
        updated == [id |-> chatId,
                    title |-> TitleOf(msgs),
                    messages |-> msgs,
                    createdAt |-> IF existing > 0 THEN prev[existing].createdAt ELSE t]
    IN  IF existing > 0 THEN [prev EXCEPT ![existing] = updated]
        ELSE <<updated>> \o prev

\* every id generateId can return within the clock's range
AllChatIds == {generateId(t, r) : t \in 0..MaxNow, r \in RandomParts}

ChatIds == {chatHistory[i].id : i \in 1..Len(chatHistory)}

isLanding == messages = <<>> /\ ~isLoading

\* the sidebar is rendered outside the landing state; onToggle opens it at
\* any time, so that its buttons can be pressed whenever it is rendered
SidebarShown == ~isLanding

AppInit ==
    /\ messages = <<>>
    /\ isLoading = FALSE
    /\ appError = NoError
    /\ activeCategory = NoCategory
    /\ stored \in InitialStorage
    /\ chatHistory = loadChats(stored)
    /\ activeChatId = NoChatId
    /\ now = 1
    /\ sessionId = SessionOfTime(1)
    /\ appFetch = Idle

\* ------------------------------------------------------------------------
\* NyayMitraApp: handlers
\* ------------------------------------------------------------------------

\* time passes
Tick ==
    /\ AppOnly
    /\ NoRequest
    /\ now < MaxNow
    /\ now' = now + 1
    /\ lastOp' = [op |-> "tick"]
    /\ UNCHANGED <<messages, isLoading, appError, activeCategory, chatHistory,
                   activeChatId, sessionId, stored, appFetch>>

\* variant: the conversation so far is sent along
AppRequestBody_WithHistory(trimmed) ==
    [message |-> trimmed, location |-> APP_LOCATION, session_id |-> sessionId,
     history |-> messages]

\* JSON.stringify({ message: trimmed, location, session_id: sessionId.current })
AppRequestBody(trimmed) ==
    [message |-> trimmed, location |-> APP_LOCATION, session_id |-> sessionId]

\* `Tell me about ${label} in India`
CategoryQuery(label) == <<"Tell me about ", label, " in India">>

\* variant: a send is accepted while a request is in flight
SendEffects_WhileLoading(text, cat) ==
    LET trimmed == Trim(text)
        newMessages == Append(messages, UserMsg(trimmed))
    IN  IF trimmed = <<>>
        THEN /\ activeCategory' = cat
             /\ UNCHANGED <<messages, isLoading, appError, chatHistory, activeChatId,
                            sessionId, stored, now, appFetch, requests>>
        ELSE /\ appError' = NoError
             /\ messages' = newMessages
             /\ isLoading' = TRUE
             /\ appFetch' = [status |-> "pending",
                             body |-> AppRequestBody(trimmed),
                             newMessages |-> newMessages,
                             activeChatId |-> activeChatId]
             /\ activeCategory' = cat
             /\ requests' = requests + 1
             /\ UNCHANGED <<chatHistory, activeChatId, sessionId, stored, now>>

\* the state changes of sendMessage(text) up to the await of fetch; cat is
\* the activeCategory the caller has set before
SendEffects(text, cat) ==
    LET trimmed == Trim(text)
        newMessages == Append(messages, UserMsg(trimmed))
    IN  IF trimmed = <<>> \/ isLoading
        THEN /\ activeCategory' = cat
             /\ UNCHANGED <<messages, isLoading, appError, chatHistory, activeChatId,
                            sessionId, stored, now, appFetch, requests>>
        ELSE /\ appError' = NoError
             /\ messages' = newMessages
             /\ isLoading' = TRUE
             /\ appFetch' = [status |-> "pending",
                             body |-> AppRequestBody(trimmed),
                             newMessages |-> newMessages,
                             activeChatId |-> activeChatId]
             /\ activeCategory' = cat
             /\ requests' = requests + 1
             /\ UNCHANGED <<chatHistory, activeChatId, sessionId, stored, now>>

\* one more request may be sent
SendFits == requests < MaxRequests

\* sendMessage(text), from the input or a quick suggestion
sendMessage(text) ==
    /\ AppOnly
    /\ SendFits
    /\ SendEffects(text, activeCategory)
    /\ lastOp' = [op |-> IF Trim(text) = <<>> \/ isLoading THEN "sendMessage:return"
                           ELSE "sendMessage",
                text |-> text]

handleCategoryClick(catId) ==
    /\ AppOnly
    /\ SidebarShown
    /\ SendFits
    /\ SendEffects(CategoryQuery(SidebarCategories[catId]), catId)
    /\ lastOp' = [op |-> IF isLoading THEN "handleCategoryClick:return"
                           ELSE "handleCategoryClick",
                text |-> CategoryQuery(SidebarCategories[catId])]

\* the answers POST /api/chat can get
AppResponses ==
    { [status |-> "ok", reply |-> r, category |-> c] :
         r \in Replies, c \in ReplyCategories \cup {NoCategory} }
    \cup { [status |-> "error", code |-> c, detail |-> d] :
             c \in ErrorStatuses, d \in Details }
    \cup { [status |-> "thrown", message |-> m] : m \in ThrownMessages }

\* the message the catch block of sendMessage sees
ChatCaughtMessage(resp) ==
    IF resp.status = "error"
    THEN ErrorOfResponse([detail |-> resp.detail, status |-> resp.code])
    ELSE resp.message

\* variant: the banner leaves out the request to try again
ChatErrorBanner_NoRetry(message) == <<"Error: ">> \o message

\* setError(`Error: ${message}. Please try again.`)
ChatErrorBanner(message) == <<"Error: ">> \o message \o <<". Please try again.">>

\* variant: the category of the answer is stored without the test
NextActiveCategory_Unguarded(resp, current) == resp.category

\* if (data.category) setActiveCategory(data.category)
NextActiveCategory(resp, current) ==
    IF resp.category # NoCategory THEN resp.category ELSE current

\* saveCurrentChat(msgs) of the render in which the request was sent:
\* captured is that render's activeChatId
saveCurrentChat(msgs, captured, r) ==
    IF msgs = <<>>
    THEN UNCHANGED <<chatHistory, stored, activeChatId>>
    ELSE LET chatId == IF captured # NoChatId THEN captured ELSE generateId(now, r)
             newHistory == UpsertChat(chatHistory, chatId, msgs, now)
         IN  /\ chatHistory' = newHistory
             /\ stored' = saveChats(newHistory)
             /\ activeChatId' = IF captured = NoChatId THEN chatId ELSE activeChatId

\* a text of n characters
TextOfLength(n) == [i \in 1..n |-> "a"]

\* message lists handed to saveCurrentChat: none, a short question, first
\* user messages of 50 and of 51 characters, and a list without a user
\* message
SaveInputs ==
    { <<>>,
      << UserMsg(<<"h", "i">>), BotMsg(<<"You have the right to ...">>, NoCategory) >>,
      << BotMsg(<<"You have the right to ...">>, NoCategory), UserMsg(TextOfLength(50)) >>,
      << UserMsg(TextOfLength(51)), UserMsg(<<"h", "i">>) >>,
      << BotMsg(BackendNotConnected, NoCategory) >> }

\* saveCurrentChat(msgs), called from a render whose activeChatId is captured:
\* no chat, a chat of the list, or a chat that is no longer in the list
CallSaveCurrentChat(msgs, captured) ==
    /\ AppOnly
    /\ requests < MaxRequests
    /\ captured \in {NoChatId, EarlierChat.id} \cup ChatIds
    /\ requests' = requests + 1
    /\ saveCurrentChat(msgs, captured, requests + 1)
    /\ lastOp' = [op |-> "saveCurrentChat", msgs |-> msgs, captured |-> captured]
    /\ UNCHANGED <<messages, isLoading, appError, activeCategory, sessionId, now,
                   appFetch>>

\* sendMessage after the await, when fetch settles with resp:
\* try / catch / finally
sendMessageSettle(resp) ==
    /\ AppOnly
    /\ NoRequest
    /\ appFetch.status = "pending"
    /\ LET newMessages == appFetch.newMessages
       IN  \/ /\ resp.status = "ok"
              /\ activeCategory' = NextActiveCategory(resp, activeCategory)
              /\ messages' = Append(newMessages, BotMsg(resp.reply, resp.category))
              /\ saveCurrentChat(messages', appFetch.activeChatId, requests)
              /\ UNCHANGED appError
           \/ /\ resp.status # "ok"
              /\ IsNetworkFailure(ChatCaughtMessage(resp))
              /\ messages' = Append(newMessages, BotMsg(BackendNotConnected, NoCategory))
              /\ saveCurrentChat(messages', appFetch.activeChatId, requests)
              /\ UNCHANGED <<appError, activeCategory>>
           \/ /\ resp.status # "ok"
              /\ ~IsNetworkFailure(ChatCaughtMessage(resp))
              /\ appError' = ChatErrorBanner(ChatCaughtMessage(resp))
              /\ UNCHANGED <<messages, activeCategory, chatHistory, stored, activeChatId>>
    /\ isLoading' = FALSE
    /\ appFetch' = Idle
    /\ lastOp' = [op |-> "sendMessage:settle", resp |-> resp]
    /\ UNCHANGED <<sessionId, now>>

\* the state changes of handleNewChat
NewChatEffects ==
    /\ messages' = <<>>
    /\ activeChatId' = NoChatId
    /\ activeCategory' = NoCategory
    /\ appError' = NoError
    /\ sessionId' = SessionOfTime(now)

handleNewChat ==
    /\ AppOnly
    /\ NoRequest
    /\ SidebarShown
    /\ NewChatEffects
    /\ lastOp' = [op |-> "handleNewChat"]
    /\ UNCHANGED <<isLoading, chatHistory, stored, now, appFetch>>

DateOfMsg(m) == [m EXCEPT !.timestamp = "Date"]

handleSelectChat(id) ==
    /\ AppOnly
    /\ NoRequest
    /\ SidebarShown
    /\ id \in ChatIds
    /\ LET chat == chatHistory[FindIndex(chatHistory, id)]
       IN  messages' = [i \in 1..Len(chat.messages) |-> DateOfMsg(chat.messages[i])]
    /\ activeChatId' = id
    /\ sessionId' = SessionOfChat(id)
    /\ lastOp' = [op |-> "handleSelectChat"]
    /\ UNCHANGED <<isLoading, appError, activeCategory, chatHistory,
                   stored, now, appFetch>>

\* variant: deleting a chat does not write the store
handleDeleteChat_NoSave(id) ==
    /\ AppOnly
    /\ NoRequest
    /\ SidebarShown
    /\ id \in ChatIds
    /\ chatHistory' = SelectSeq(chatHistory, LAMBDA c : c.id # id)
    /\ IF activeChatId = id
       THEN NewChatEffects
       ELSE UNCHANGED <<messages, activeChatId, activeCategory, appError,
                        sessionId>>
    /\ lastOp' = [op |-> "handleDeleteChat", id |-> id]
    /\ UNCHANGED <<isLoading, now, appFetch, stored>>

handleDeleteChat(id) ==
    /\ AppOnly
    /\ NoRequest
    /\ SidebarShown
    /\ id \in ChatIds
    /\ chatHistory' = SelectSeq(chatHistory, LAMBDA c : c.id # id)
    /\ stored' = saveChats(chatHistory')
    /\ IF activeChatId = id
       THEN NewChatEffects
       ELSE UNCHANGED <<messages, activeChatId, activeCategory, appError,
                        sessionId>>
    /\ lastOp' = [op |-> "handleDeleteChat", id |-> id]
    /\ UNCHANGED <<isLoading, now, appFetch>>

\* the page is loaded again: the component is constructed anew (useState
\* initial values, a new sessionId ref) and the mount effect reads the
\* chat list back; a request in flight dies with the old page
Remount ==
    /\ AppOnly
    /\ NoRequest
    /\ messages' = <<>>
    /\ isLoading' = FALSE
    /\ appError' = NoError
    /\ activeCategory' = NoCategory
    /\ chatHistory' = loadChats(stored)
    /\ activeChatId' = NoChatId
    /\ sessionId' = SessionOfTime(now)
    /\ appFetch' = Idle
    /\ lastOp' = [op |-> "remount"]
    /\ UNCHANGED <<stored, now>>

\* ------------------------------------------------------------------------
\* ChatInterface
\* ------------------------------------------------------------------------

\* a Message of ChatInterface carries the location of the render that added it
CIMsg(role, content, category, loc) ==
    [role |-> role, content |-> content, timestamp |-> "Date",
     category |-> category, location |-> loc]

CIInit ==
    /\ ciMessages = <<>>
    /\ inputValue = <<>>
    /\ location = "Bengaluru, Karnataka"
    /\ ciIsLoading = FALSE
    /\ ciError = NoError
    /\ ciActiveCategory = NoCategory
    /\ ciSessionId = SessionOfTime(1)
    /\ ciFetch = Idle

\* the textarea is disabled while isLoading
setInputValue(text) ==
    /\ ChatInterfaceOnly
    /\ NoRequest
    /\ ~ciIsLoading
    /\ inputValue' = text
    /\ lastOp' = [op |-> "ChatInterface.setInputValue"]
    /\ UNCHANGED <<ciMessages, location, ciIsLoading, ciError, ciActiveCategory,
                   ciSessionId, ciFetch>>

setLocation(loc) ==
    /\ ChatInterfaceOnly
    /\ NoRequest
    /\ location' = loc
    /\ lastOp' = [op |-> "ChatInterface.setLocation"]
    /\ UNCHANGED <<ciMessages, inputValue, ciIsLoading, ciError, ciActiveCategory,
                   ciSessionId, ciFetch>>

\* JSON.stringify({ message: trimmed, location: location, session_id: sessionId.current })
CIRequestBody(trimmed) ==
    [message |-> trimmed, location |-> location, session_id |-> ciSessionId]

\* the state changes of sendMessage(text) up to the await of fetch; cat is
\* the activeCategory the caller has set before
CISendEffects(text, cat) ==
    LET trimmed == Trim(text)
    IN  IF trimmed = <<>> \/ ciIsLoading
        THEN /\ ciActiveCategory' = cat
             /\ UNCHANGED <<ciMessages, inputValue, location, ciIsLoading, ciError,
                            ciSessionId, ciFetch, requests>>
        ELSE /\ ciError' = NoError
             /\ inputValue' = <<>>
             /\ ciMessages' = Append(ciMessages, CIMsg("user", trimmed, NoCategory, location))
             /\ ciIsLoading' = TRUE
             /\ ciFetch' = [status |-> "pending",
                            body |-> CIRequestBody(trimmed),
                            location |-> location]
             /\ ciActiveCategory' = cat
             /\ requests' = requests + 1
             /\ UNCHANGED <<location, ciSessionId>>

\* sendMessage(inputValue) from the keyboard or the send button
ChatInterface_sendMessage ==
    /\ ChatInterfaceOnly
    /\ SendFits
    /\ CISendEffects(inputValue, ciActiveCategory)
    /\ lastOp' = [op |-> IF Trim(inputValue) = <<>> \/ ciIsLoading
                           THEN "ChatInterface.sendMessage:return"
                           ELSE "ChatInterface.sendMessage",
                  text |-> inputValue]

\* sendMessage(q.text)
handleQuickQuestion(q) ==
    /\ ChatInterfaceOnly
    /\ SendFits
    /\ CISendEffects(q, ciActiveCategory)
    /\ lastOp' = [op |-> IF ciIsLoading THEN "ChatInterface.sendMessage:return"
                           ELSE "ChatInterface.sendMessage",
                  text |-> q]

ChatInterface_handleCategoryClick(catId) ==
    /\ ChatInterfaceOnly
    /\ SendFits
    /\ CISendEffects(CategoryQuery(SidebarCategories[catId]), catId)
    /\ lastOp' = [op |-> IF ciIsLoading THEN "ChatInterface.handleCategoryClick:return"
                           ELSE "ChatInterface.handleCategoryClick",
                  text |-> CategoryQuery(SidebarCategories[catId])]

\* variant: isLoading is reset at the end of the try block only
ChatInterface_sendMessageSettle_NoFinally(resp) ==
    /\ ChatInterfaceOnly
    /\ NoRequest
    /\ ciFetch.status = "pending"
    /\ \/ /\ resp.status = "ok"
          /\ ciMessages' = Append(ciMessages,
                                  CIMsg("bot", resp.reply, resp.category, ciFetch.location))
          /\ ciActiveCategory' = NextActiveCategory(resp, ciActiveCategory)
          /\ ciIsLoading' = FALSE
          /\ UNCHANGED ciError
       \/ /\ resp.status # "ok"
          /\ IsNetworkFailure(ChatCaughtMessage(resp))
          /\ ciMessages' = Append(ciMessages,
                                  CIMsg("bot", BackendNotConnected, NoCategory, ciFetch.location))
          /\ UNCHANGED <<ciError, ciActiveCategory, ciIsLoading>>
       \/ /\ resp.status # "ok"
          /\ ~IsNetworkFailure(ChatCaughtMessage(resp))
          /\ ciError' = ChatErrorBanner(ChatCaughtMessage(resp))
          /\ UNCHANGED <<ciMessages, ciActiveCategory, ciIsLoading>>
    /\ ciFetch' = Idle
    /\ lastOp' = [op |-> "ChatInterface.sendMessage:settle", resp |-> resp]
    /\ UNCHANGED <<inputValue, location, ciSessionId>>

\* sendMessage after the await, when fetch settles with resp:
\* try / catch / finally
ChatInterface_sendMessageSettle(resp) ==
    /\ ChatInterfaceOnly
    /\ NoRequest
    /\ ciFetch.status = "pending"
    /\ \/ /\ resp.status = "ok"
          /\ ciMessages' = Append(ciMessages,
                                  CIMsg("bot", resp.reply, resp.category, ciFetch.location))
          /\ ciActiveCategory' = NextActiveCategory(resp, ciActiveCategory)
          /\ UNCHANGED ciError
       \/ /\ resp.status # "ok"
          /\ IsNetworkFailure(ChatCaughtMessage(resp))
          /\ ciMessages' = Append(ciMessages,
                                  CIMsg("bot", BackendNotConnected, NoCategory, ciFetch.location))
          /\ UNCHANGED <<ciError, ciActiveCategory>>
       \/ /\ resp.status # "ok"
          /\ ~IsNetworkFailure(ChatCaughtMessage(resp))
          /\ ciError' = ChatErrorBanner(ChatCaughtMessage(resp))
          /\ UNCHANGED <<ciMessages, ciActiveCategory>>
    /\ ciIsLoading' = FALSE
    /\ ciFetch' = Idle
    /\ lastOp' = [op |-> "ChatInterface.sendMessage:settle", resp |-> resp]
    /\ UNCHANGED <<inputValue, location, ciSessionId>>

\* the page is loaded again: every useState starts over
ChatInterface_Remount ==
    /\ ChatInterfaceOnly
    /\ NoRequest
    /\ ciMessages' = <<>>
    /\ inputValue' = <<>>
    /\ location' = "Bengaluru, Karnataka"
    /\ ciIsLoading' = FALSE
    /\ ciError' = NoError
    /\ ciActiveCategory' = NoCategory
    /\ ciFetch' = Idle
    /\ lastOp' = [op |-> "ChatInterface.remount"]
    /\ UNCHANGED ciSessionId

QUICK_QUESTIONS == { <<"My landlord won't return my security deposit">> }

\* ------------------------------------------------------------------------
\* Backend: the pipeline behind POST /api/chat and POST /api/rights-card.
\* Its code (app/services/helpers.py, the API handlers) is not among the
\* sources at hand; it is modelled from sections 3, 4, 6 and 7 of the
\* specification.  A text is a sequence of words.
\* ------------------------------------------------------------------------

\* longest text, in words
MaxWords == 2

BoundedSeq(S, n) == UNION {[1..k -> S] : k \in 0..n}

\* case-insensitive matching: the lower-case form of a word
Lower(w) ==
    CASE w = "Landlord"    -> "landlord"
      [] w = "Koramangala" -> "koramangala"
      [] OTHER             -> w

\* JurisdictionEntry: pincode -> normalized locality
PincodeTable ==
    ("560034" :> "Koramangala, Bengaluru") @@ ("560066" :> "Whitefield, Bengaluru")

\* JurisdictionEntry: area keyword -> normalized locality
AreaTable ==
    ("koramangala" :> "Koramangala, Bengaluru") @@ ("whitefield" :> "Whitefield, Bengaluru")

\* the configured default locality
DefaultLocality == "Bengaluru"

\* first position of text whose lower-case word is in S, 0 if there is none
FirstIn(text, S) ==
    IF \E i \in 1..Len(text) : Lower(text[i]) \in S
    THEN CHOOSE i \in 1..Len(text) :
            /\ Lower(text[i]) \in S
            /\ \A j \in 1..(i - 1) : Lower(text[j]) \notin S
    ELSE 0

\* variant: the area keywords are tried before the pincodes
resolve_location_AreaFirst(input) ==
    LET p == FirstIn(input, DOMAIN PincodeTable)
        a == FirstIn(input, DOMAIN AreaTable)
    IN  IF a > 0 THEN AreaTable[Lower(input[a])]
        ELSE IF p > 0 THEN PincodeTable[input[p]]
        ELSE DefaultLocality

\* 4.2: a pincode of the table, else an area keyword, else the default
resolve_location(input) ==
    LET p == FirstIn(input, DOMAIN PincodeTable)
        a == FirstIn(input, DOMAIN AreaTable)
    IN  IF p > 0 THEN PincodeTable[input[p]]
        ELSE IF a > 0 THEN AreaTable[Lower(input[a])]
        ELSE DefaultLocality

\* CategoryTaxonomy, in its declared order
CategoryOrder ==
    <<"family", "property", "labour", "criminal", "consumer", "cyber",
      "employment", "human_rights">>

\* the trigger keywords of each category; "salary" belongs to two
Keywords ==
    [family       |-> {"divorce"},
     property     |-> {"landlord", "evict"},
     labour       |-> {"salary"},
     criminal     |-> {"arrest"},
     consumer     |-> {"refund"},
     cyber        |-> {"hacked"},
     employment   |-> {"salary", "fired"},
     human_rights |-> {"custody"}]

GeneralCategory == "general"

\* variant: a message without a keyword gets the first category
detect_legal_category_NoDefault(message) ==
    IF \E k \in 1..Len(CategoryOrder) : FirstIn(message, Keywords[CategoryOrder[k]]) > 0
    THEN CategoryOrder[CHOOSE k \in 1..Len(CategoryOrder) :
            /\ FirstIn(message, Keywords[CategoryOrder[k]]) > 0
            /\ \A j \in 1..(k - 1) : FirstIn(message, Keywords[CategoryOrder[j]]) = 0]
    ELSE CategoryOrder[1]

\* 4.1: linear scan over the categories, the first one with a hit wins
detect_legal_category(message) ==
    IF \E k \in 1..Len(CategoryOrder) : FirstIn(message, Keywords[CategoryOrder[k]]) > 0
    THEN CategoryOrder[CHOOSE k \in 1..Len(CategoryOrder) :
            /\ FirstIn(message, Keywords[CategoryOrder[k]]) > 0
            /\ \A j \in 1..(k - 1) : FirstIn(message, Keywords[CategoryOrder[j]]) = 0]
    ELSE GeneralCategory

\* LawyerRecord, the fields the matcher reads
Lawyer(name, specialty, fee) == [name |-> name, specialty |-> specialty, fee |-> fee]

\* docs/lawyers.json
LawyerDirectory ==
    << Lawyer("Adv. Rao", "property", "paid"),
       Lawyer("Adv. Khan", "criminal", "paid"),
       Lawyer("KLSA", "general", "free"),
       Lawyer("Vanitha Sahaya Kendra", "family", "free"),
       Lawyer("Adv. Iyer", "property", "paid") >>

\* the N of "top N"
TopN == 3

Take(sq, n) == SubSeq(sq, 1, IF Len(sq) < n THEN Len(sq) ELSE n)

\* variant: the directory is cut to N without a filter
find_lawyers_Unfiltered(dir, category) == Take(dir, TopN)

\* 4.3: exact category match; if none, the free legal-aid entries
find_lawyers(dir, category) ==
    LET exact == SelectSeq(dir, LAMBDA l : l.specialty = category)
        free  == SelectSeq(dir, LAMBDA l : l.fee = "free")
    IN  IF exact # <<>> THEN Take(exact, TopN) ELSE Take(free, TopN)

\* the suggestion block: name, specialty and fee type of each entry
format_lawyer_suggestions(list) ==
    [i \in 1..Len(list) |-> <<list[i].name, list[i].specialty, list[i].fee>>]

NoCall == [endpoint |-> "none"]

NoResponse == [status |-> 0]

MessageWords == {"landlord", "Landlord", "divorce", "salary", "hello"}

LocationWords == {"560034", "560066", "110001", "Koramangala", "whitefield", "mysuru"}

\* 6: {message, location, session_id}; the session id is not read
ChatRequests ==
    { [endpoint |-> "chat", message |-> m, location |-> l] :
         m \in BoundedSeq(MessageWords, MaxWords), l \in BoundedSeq(LocationWords, MaxWords) }

\* 6: {situation, language, location}, also with values outside the enums
CardRequests ==
    { [endpoint |-> "rights-card", situation |-> s, language |-> g, location |-> l] :
         s \in SITUATIONS \cup {"Arrested by Police"},
         g \in LANGUAGES \cup {"Tamil"},
         l \in {<<>>, <<"Koramangala">>} }

\* 7 (a): a required field is missing, or a value is outside its enum
ValidRequest(req) ==
    IF req.endpoint = "chat" THEN req.message # <<>>
    ELSE req.situation \in SITUATIONS /\ req.language \in LANGUAGES

\* what the call of the hosted model comes to
Upstream == {"ok", "fails"}

\* no credentials are configured, or the call of the hosted model fails
Degraded(creds, upstream) == ~creds \/ upstream = "fails"

ValidationError == [status |-> 422, detail |-> <<"Invalid request">>]

\* variant: a failure of the hosted model is handed on to the caller
ChatAnswer_Propagating(req, creds, upstream, dir) ==
    IF ~ValidRequest(req) THEN ValidationError
    ELSE IF creds /\ upstream = "fails"
    THEN [status |-> 502, detail |-> <<"Model call failed">>]
    ELSE LET category == detect_legal_category(req.message)
         IN  [status       |-> 200,
              reply        |-> IF Degraded(creds, upstream) THEN <<"canned advice">>
                               ELSE <<"model text">>,
              category     |-> category,
              jurisdiction |-> resolve_location(req.location),
              lawyers      |-> format_lawyer_suggestions(find_lawyers(dir, category)),
              is_mock      |-> Degraded(creds, upstream)]

\* 4.4, 4.6: category and jurisdiction, then the lawyers, then the model,
\* or the canned reply when the model cannot be reached
ChatAnswer(req, creds, upstream, dir) ==
    IF ~ValidRequest(req) THEN ValidationError
    ELSE LET category == detect_legal_category(req.message)
         IN  [status       |-> 200,
              reply        |-> IF Degraded(creds, upstream) THEN <<"canned advice">>
                               ELSE <<"model text">>,
              category     |-> category,
              jurisdiction |-> resolve_location(req.location),
              lawyers      |-> format_lawyer_suggestions(find_lawyers(dir, category)),
              is_mock      |-> Degraded(creds, upstream)]

\* 4.5: the card of the model, or the canned static card, is_mock = true
CardAnswer(req, creds, upstream) ==
    IF ~ValidRequest(req) THEN ValidationError
    ELSE [status    |-> 200,
          situation |-> req.situation,
          language  |-> req.language,
          rights    |-> IF Degraded(creds, upstream) THEN <<"canned right">>
                        ELSE <<"model right">>,
          is_mock   |-> Degraded(creds, upstream)]

BackendInit ==
    /\ credentials \in BOOLEAN
    /\ beRequest = NoCall
    /\ beResponse = NoResponse
    /\ directory = LawyerDirectory

\* a request arrives
ReceiveRequest ==
    /\ BackendOnly
    /\ beRequest = NoCall
    /\ beRequest' \in ChatRequests \cup CardRequests
    /\ beResponse' = NoResponse
    /\ lastOp' = [op |-> "receive"]
    /\ UNCHANGED <<credentials, directory>>

\* POST /api/chat
api_chat(upstream) ==
    /\ BackendOnly
    /\ beRequest.endpoint = "chat"
    /\ beResponse = NoResponse
    /\ beResponse' = ChatAnswer(beRequest, credentials, upstream, directory)
    /\ lastOp' = [op |-> "api_chat", upstream |-> upstream]
    /\ UNCHANGED <<credentials, beRequest, directory>>

\* POST /api/rights-card
api_rights_card(upstream) ==
    /\ BackendOnly
    /\ beRequest.endpoint = "rights-card"
    /\ beResponse = NoResponse
    /\ beResponse' = CardAnswer(beRequest, credentials, upstream)
    /\ lastOp' = [op |-> "api_rights_card", upstream |-> upstream]
    /\ UNCHANGED <<credentials, beRequest, directory>>

\* the response is sent; each request is independent
SendResponse ==
    /\ BackendOnly
    /\ beResponse # NoResponse
    /\ beRequest' = NoCall
    /\ beResponse' = NoResponse
    /\ lastOp' = [op |-> "respond"]
    /\ UNCHANGED <<credentials, directory>>

BackendNext ==
    \/ ReceiveRequest
    \/ \E upstream \in Upstream : api_chat(upstream)
    \/ \E upstream \in Upstream : api_rights_card(upstream)
    \/ SendResponse

\* ------------------------------------------------------------------------
\* GradientAIChatInput
\* ------------------------------------------------------------------------

\* the number of files the model attaches at most
MaxFiles == 2

Files == {"a.pdf", "b.png"}

\* dropdownOptions, by id
DropdownOptions == {"option1", "option2", "option3"}

NoOption == "null"

InputInit ==
    /\ inputMessage = <<>>
    /\ isDropdownOpen = FALSE
    /\ attachedFiles = <<>>
    /\ selectedOption = NoOption
    /\ disabled \in BOOLEAN
    /\ onSend \in BOOLEAN

\* the parent renders the input with another value of disabled
SetDisabled ==
    /\ InputOnly
    /\ disabled' = ~disabled
    /\ lastOp' = [op |-> "setDisabled"]
    /\ UNCHANGED <<inputMessage, isDropdownOpen, attachedFiles, selectedOption, onSend>>

\* onChange of the textarea, which is disabled with the input
setMessage(text) ==
    /\ InputOnly
    /\ ~disabled
    /\ inputMessage' = text
    /\ lastOp' = [op |-> "setMessage"]
    /\ UNCHANGED <<isDropdownOpen, attachedFiles, selectedOption, disabled, onSend>>

\* variant: the disabled prop is not looked at
SubmitCalls_IgnoreDisabled ==
    IF Trim(inputMessage) # <<>> /\ onSend
    THEN << <<Trim(inputMessage)>> >>
    ELSE <<>>

\* the calls of onSend that handleSubmit makes, each as its argument list
SubmitCalls ==
    IF Trim(inputMessage) # <<>> /\ onSend /\ ~disabled
    THEN << <<Trim(inputMessage)>> >>
    ELSE <<>>

\* the state changes of handleSubmit
SubmitEffects ==
    /\ inputMessage' = IF SubmitCalls # <<>> THEN <<>> ELSE inputMessage
    /\ UNCHANGED <<isDropdownOpen, attachedFiles, selectedOption, disabled, onSend>>

\* onSubmit of the form
handleSubmit ==
    /\ InputOnly
    /\ SubmitEffects
    /\ lastOp' = [op |-> "handleSubmit", calls |-> SubmitCalls]

\* onKeyDown of the textarea: Enter without Shift submits
handleKeyDown(key, shiftKey) ==
    /\ InputOnly
    /\ ~disabled
    /\ IF key = "Enter" /\ ~shiftKey
       THEN /\ SubmitEffects
            /\ lastOp' = [op |-> "handleKeyDown", key |-> key, shiftKey |-> shiftKey,
                          calls |-> SubmitCalls]
       ELSE /\ lastOp' = [op |-> "handleKeyDown", key |-> key, shiftKey |-> shiftKey,
                          calls |-> <<>>]
            /\ UNCHANGED inputVars

\* the file picker returns files; room for them is a bound of the model
handleFileChange(files) ==
    /\ InputOnly
    /\ ~disabled
    /\ files # <<>>
    /\ Len(attachedFiles) + Len(files) <= MaxFiles
    /\ attachedFiles' = attachedFiles \o files
    /\ lastOp' = [op |-> "handleFileChange"]
    /\ UNCHANGED <<inputMessage, isDropdownOpen, selectedOption, disabled, onSend>>

\* prev.filter((_, i) => i !== index), index counted from 0
removeFile(index) ==
    /\ InputOnly
    /\ index < Len(attachedFiles)
    /\ attachedFiles' = [i \in 1..(Len(attachedFiles) - 1) |->
                            IF i <= index THEN attachedFiles[i] ELSE attachedFiles[i + 1]]
    /\ lastOp' = [op |-> "removeFile"]
    /\ UNCHANGED <<inputMessage, isDropdownOpen, selectedOption, disabled, onSend>>

\* the dropdown button
toggleDropdown ==
    /\ InputOnly
    /\ ~disabled
    /\ isDropdownOpen' = ~isDropdownOpen
    /\ lastOp' = [op |-> "toggleDropdown"]
    /\ UNCHANGED <<inputMessage, attachedFiles, selectedOption, disabled, onSend>>

\* onClick of a dropdown option
selectOption(option) ==
    /\ InputOnly
    /\ isDropdownOpen
    /\ selectedOption' = option
    /\ isDropdownOpen' = FALSE
    /\ lastOp' = [op |-> "selectOption"]
    /\ UNCHANGED <<inputMessage, attachedFiles, disabled, onSend>>

\* mousedown outside the dropdown
handleClickOutside ==
    /\ InputOnly
    /\ isDropdownOpen
    /\ isDropdownOpen' = FALSE
    /\ lastOp' = [op |-> "handleClickOutside"]
    /\ UNCHANGED <<inputMessage, attachedFiles, selectedOption, disabled, onSend>>

\* sequences of files of length 1..MaxFiles
FileLists == UNION { [1..n -> Files] : n \in 1..MaxFiles }

InputNext ==
    \/ SetDisabled
    \/ \E text \in Texts : setMessage(text)
    \/ handleSubmit
    \/ \E key \in {"Enter", "a"} : \E shiftKey \in BOOLEAN : handleKeyDown(key, shiftKey)
    \/ \E files \in FileLists : handleFileChange(files)
    \/ \E index \in 0..(MaxFiles - 1) : removeFile(index)
    \/ toggleDropdown
    \/ \E option \in DropdownOptions : selectOption(option)
    \/ handleClickOutside

\* ------------------------------------------------------------------------
\* Sidebar
\* ------------------------------------------------------------------------

\* the number of chats in the list handed to the sidebar
MaxChats == 2

\* a calendar day, in the unit of the sidebar's clock (half a day)
Day == 2

\* new Date(x) for a value that is not a date
InvalidDate == [kind |-> "invalid"]

DateOf(t) == [kind |-> "date", t |-> t]

\* the dates a chat can carry: ten days around the boundaries, and a
\* createdAt that does not parse
CreatedAts == {DateOf(t) : t \in 0..(10 * Day - 1)} \cup {InvalidDate}

\* the clock at the render: the start and the second half of the ninth day
SidebarNows == {8 * Day, 8 * Day + 1}

\* ChatSession lists; the id is the position in the list
ChatSessions ==
    UNION { { [i \in 1..n |-> [id |-> i, createdAt |-> f[i]]] : f \in [1..n -> CreatedAts] } :
              n \in 0..MaxChats }

\* new Date(now.getFullYear(), now.getMonth(), now.getDate())
StartOfDay(t) == (t \div Day) * Day

\* d >= limit for Dates: false for an invalid date
NotBefore(d, limit) == d.kind = "date" /\ d.t >= limit

GroupLabels == <<"Today", "Yesterday", "Previous 7 Days", "Older">>

\* variant: a chat created exactly at a boundary falls into the older group
GroupOf_Strict(chat, t) ==
    LET today == StartOfDay(t)
        yesterday == today - Day
        weekAgo == today - 7 * Day
        d == chat.createdAt
    IN  IF d.kind = "date" /\ d.t > today THEN 1
        ELSE IF d.kind = "date" /\ d.t > yesterday THEN 2
        ELSE IF d.kind = "date" /\ d.t > weekAgo THEN 3
        ELSE 4

\* the index of the group the forEach body pushes the chat to
GroupOf(chat, t) ==
    LET today == StartOfDay(t)
        yesterday == today - Day
        weekAgo == today - 7 * Day
        d == chat.createdAt
    IN  IF NotBefore(d, today) THEN 1
        ELSE IF NotBefore(d, yesterday) THEN 2
        ELSE IF NotBefore(d, weekAgo) THEN 3
        ELSE 4

groupByDate(chats, t) ==
    LET all == [g \in 1..4 |->
                  [label |-> GroupLabels[g],
                   chats |-> SelectSeq(chats, LAMBDA c : GroupOf(c, t) = g)]]
    IN  SelectSeq(all, LAMBDA g : Len(g.chats) > 0)

SidebarInit ==
    /\ sidebarHistory \in ChatSessions
    /\ sidebarNow \in SidebarNows
    /\ groups = <<>>

\* a render of the sidebar: const groups = groupByDate(chatHistory)
Sidebar_render ==
    /\ SidebarOnly
    /\ groups' = groupByDate(sidebarHistory, sidebarNow)
    /\ lastOp' = [op |-> "groupByDate"]
    /\ UNCHANGED <<sidebarHistory, sidebarNow>>

SidebarNext ==
    \/ Sidebar_render

WizNext ==
    \/ OpenWizard
    \/ CloseWizard
    \/ \E loc \in Locations : SetWizLocation(loc)
    \/ \E s \in SITUATIONS : handleSituationSelect(s)
    \/ \E l \in LANGUAGES : setSelectedLanguage(l)
    \/ handleGenerate
    \/ WizServerRespond
    \/ handleGenerateSettle
    \/ handleBack
    \/ handleReset
    \/ handleDownload
    \/ \E ok \in BOOLEAN : handleDownloadSettle(ok)

PageNext ==
    \/ \E s \in PAGE_SITUATIONS : setSituation(s)
    \/ \E l \in PAGE_LANGUAGES : setLanguage(l)
    \/ Page_handleGenerate
    \/ PageServerRespond
    \/ Page_handleGenerateSettle

AppNext ==
    \/ Tick
    \/ \E text \in Texts : sendMessage(text)
    \/ \E catId \in DOMAIN SidebarCategories : handleCategoryClick(catId)
    \/ \E resp \in AppResponses : sendMessageSettle(resp)
    \/ handleNewChat
    \/ \E id \in AllChatIds : handleSelectChat(id)
    \/ \E id \in AllChatIds : handleDeleteChat(id)
    \/ Remount
ChatInterfaceNext ==
    \/ \E text \in Texts : setInputValue(text)
    \/ \E loc \in Locations : setLocation(loc)
    \/ ChatInterface_sendMessage
    \/ \E q \in QUICK_QUESTIONS : handleQuickQuestion(q)
    \/ \E catId \in DOMAIN SidebarCategories : ChatInterface_handleCategoryClick(catId)
    \/ \E resp \in AppResponses : ChatInterface_sendMessageSettle(resp)
    \/ ChatInterface_Remount

\* the handlers of the chat page that is mounted
ChatNext == AppNext \/ ChatInterfaceNext

Init ==
    /\ WizInit
    /\ PageInit
    /\ AppInit
    /\ CIInit
    /\ BackendInit
    /\ InputInit
    /\ SidebarInit
    /\ mounted \in {"NyayMitraApp", "ChatInterface", "RightsCardGenerator", "api",
                    "GradientAIChatInput", "Sidebar"}
    /\ mounted # "Sidebar" => sidebarHistory = <<>> /\ sidebarNow = 8 * Day
    /\ mounted # "GradientAIChatInput" => ~disabled /\ onSend
    /\ mounted # "NyayMitraApp" => stored = NoItem
    /\ mounted # "api" => credentials = FALSE
    /\ requests = 0
    /\ lastOp = [op |-> "init"]

\* the rights-card components, on a page opened with an empty chat list
InitRightsCard == Init /\ mounted = "RightsCardGenerator"

SpecWizard == InitRightsCard /\ [][WizNext]_vars

SpecCardPage == InitRightsCard /\ [][PageNext]_vars

\* one of the two chat pages, on a first visit: no chat is stored yet
InitChat ==
    Init /\ mounted \in {"NyayMitraApp", "ChatInterface"} /\ stored \in {NoItem, Unreadable}

SpecChat == InitChat /\ [][ChatNext]_vars

\* every component that sends requests; the behaviour follows the one
\* that is exercised
Next == WizNext \/ ChatNext

\* one of the components that send requests
InitClient == Init /\ mounted \in {"NyayMitraApp", "ChatInterface", "RightsCardGenerator"}

\* a client component on a first visit: nothing is stored yet
InitFirstVisit == InitClient /\ stored = NoItem

Spec == InitFirstVisit /\ [][Next]_vars

\* NyayMitraApp opened by a user who has a chat in the store
InitReturning == Init /\ mounted = "NyayMitraApp" /\ stored \notin {NoItem, Unreadable}

SpecReturning == InitReturning /\ [][AppNext]_vars

InitBackend == Init /\ mounted = "api"

InitInput == Init /\ mounted = "GradientAIChatInput"

InitSidebar == Init /\ mounted = "Sidebar"

SpecSidebar == InitSidebar /\ [][SidebarNext]_vars

SpecInput == InitInput /\ [][InputNext]_vars

SpecBackend == InitBackend /\ [][BackendNext]_vars

\* the chat of the first exchange of this visit, answered with a category
FirstChat ==
    [id |-> generateId(1, 0),
     title |-> <<"h", "i">>,
     messages |-> << UserMsg(<<"h", "i">>), BotMsg(<<"You have the right to ...">>, "property") >>,
     createdAt |-> 1]

\* NyayMitraApp later in a visit: the page was opened on a store that holds
\* EarlierChat, a first exchange has been saved as FirstChat, and the user
\* has opened EarlierChat from the sidebar (handleSelectChat); requests
\* counts the requests sent from here on
InitOpenChat ==
    /\ WizInit
    /\ PageInit
    /\ CIInit
    /\ BackendInit
    /\ InputInit
    /\ SidebarInit
    /\ sidebarHistory = <<>>
    /\ sidebarNow = 8 * Day
    /\ ~disabled
    /\ onSend
    /\ mounted = "NyayMitraApp"
    /\ credentials = FALSE
    /\ chatHistory = <<FirstChat>> \o loadChats(saveChats(<<EarlierChat>>))
    /\ stored = saveChats(chatHistory)
    /\ messages = [i \in 1..Len(EarlierChat.messages) |-> DateOfMsg(EarlierChat.messages[i])]
    /\ activeChatId = EarlierChat.id
    /\ sessionId = SessionOfChat(EarlierChat.id)
    /\ activeCategory = "property"
    /\ isLoading = FALSE
    /\ appError = NoError
    /\ appFetch = Idle
    /\ now = 1
    /\ requests = 0
    /\ lastOp = [op |-> "handleSelectChat"]

SpecOpenChat == InitOpenChat /\ [][AppNext]_vars

\* saveCurrentChat as a function of its argument, of the captured
\* activeChatId, of the chat list and of the clock
SaveChatNext ==
    \/ Tick
    \/ \E msgs \in SaveInputs : \E captured \in AllChatIds \cup {NoChatId} :
          CallSaveCurrentChat(msgs, captured)

InitSaveChat == Init /\ mounted = "NyayMitraApp"

SpecSaveChat == InitSaveChat /\ [][SaveChatNext]_vars

\* every request settles: fetch resolves or rejects, and the continuation
\* of the handler that awaits it runs
RequestsSettle ==
    WF_vars( \/ \E resp \in AppResponses : sendMessageSettle(resp)
             \/ \E resp \in AppResponses : ChatInterface_sendMessageSettle(resp)
             \/ WizServerRespond
             \/ handleGenerateSettle )

SpecSettling == InitFirstVisit /\ [][Next]_vars /\ RequestsSettle

\* ------------------------------------------------------------------------
\* Properties of the rights-card wizard
\* ------------------------------------------------------------------------

\* C1: the step is one of select, configure, result; configure is entered
\* from select only by handleSituationSelect; result is entered only from
\* configure, by a generation request that returned 2xx - never from select.
C1_StepOrder ==
    [][ /\ step' \in {"select", "configure", "result"}
        /\ (step = "select" /\ step' = "configure" => lastOp' = [op |-> "handleSituationSelect"])
        /\ (step # "result" /\ step' = "result" =>
                step = "configure" /\ wizFetch.status = "ok") ]_vars

\* C2 as stated: once the step is result, no action changes it.
C2_ResultTerminal == [][step = "result" => step' = "result"]_vars

\* C2 amended: the step result is left only by handleBack, to configure and
\* without the card, or by handleReset, to select with the situation, the
\* language, the card and the error reset; closing, reopening, downloading
\* and a changed location leave the step at result.
C2_ResultLeftByBackOrReset ==
    [][ step = "result" /\ step' # "result" =>
          \/ /\ lastOp' = [op |-> "handleBack"]
             /\ step' = "configure"
             /\ cardData' = NoCard
          \/ /\ lastOp' = [op |-> "handleReset"]
             /\ step' = "select"
             /\ selectedSituation' = NoSituation
             /\ selectedLanguage' = "English"
             /\ cardData' = NoCard
             /\ error' = NoError ]_vars

\* the wizard was closed and reopened on the result step
C2_Witness == step = "result" /\ isOpen /\ lastOp.op = "open"

\* C3: after handleBack the state of the later steps is initial: no card
\* after returning to configure; after returning to select no situation,
\* the default language, no card and no error.
C3_BackResetsDownstream ==
    lastOp.op = "handleBack" =>
        /\ step = "configure" => cardData = NoCard
        /\ step = "select" =>
              /\ selectedSituation = NoSituation
              /\ selectedLanguage = "English"
              /\ cardData = NoCard
              /\ error = NoError

\* C4: a card is held exactly when the step is result.
C4_CardIffResult == (cardData # NoCard) <=> (step = "result")

\* a card is shown, and the user has gone back from a card before
C4_Witness == step = "result" /\ cardData # NoCard /\ selectedSituation = NoSituation

\* C5: every rights-card request in flight carries situation, language and
\* location, with situation in SITUATIONS (so one is selected) and language
\* in LANGUAGES.
C5_RequestWellFormed ==
    \A f \in {wizFetch, pageFetch} :
        f.status = "pending" =>
            /\ DOMAIN f.body = {"situation", "language", "location"}
            /\ f.body.situation \in SITUATIONS
            /\ f.body.language \in LANGUAGES

\* C6: when a rights-card request of the wizard ends non-2xx, the step and
\* the card are unchanged, the error is the detail of the response or
\* "Server error: <status>" without one, and isGenerating is false.
C6_Non2xxShowsDetail ==
    [][ wizFetch.status = "error" /\ wizFetch' = Idle =>
          /\ step' = step
          /\ cardData' = cardData
          /\ error' = IF wizFetch.detail # <<>> THEN wizFetch.detail
                      ELSE <<"Server error: ", wizFetch.code>>
          /\ ~isGenerating' ]_vars

\* ------------------------------------------------------------------------
\* Properties of the chat pages
\* ------------------------------------------------------------------------

Blank(t) == \A i \in 1..Len(t) : t[i] = " "

\* m is text without the blanks at its two ends
IsTrimOf(m, text) ==
    /\ m = <<>> \/ (m[1] # " " /\ m[Len(m)] # " ")
    /\ \E i, j \in 0..Len(text) :
          /\ i + j <= Len(text)
          /\ Blank(SubSeq(text, 1, i))
          /\ Blank(SubSeq(text, Len(text) - j + 1, Len(text)))
          /\ m = SubSeq(text, i + 1, Len(text) - j)

AppSent == appFetch' # appFetch /\ appFetch'.status = "pending"

ChatInterfaceSent == ciFetch' # ciFetch /\ ciFetch'.status = "pending"

\* C7: every request to /api/chat carries message, location and session_id;
\* message is the text sent, trimmed and not empty, session_id is the
\* current session id; sendMessage with a blank text sends nothing and
\* changes no state.
C7_ChatRequestBody ==
    [][ /\ AppSent =>
              LET b == appFetch'.body
              IN  /\ DOMAIN b = {"message", "location", "session_id"}
                  /\ IsTrimOf(b.message, lastOp'.text)
                  /\ b.message # <<>>
                  /\ b.location = APP_LOCATION
                  /\ b.session_id = sessionId
        /\ ChatInterfaceSent =>
              LET b == ciFetch'.body
              IN  /\ DOMAIN b = {"message", "location", "session_id"}
                  /\ IsTrimOf(b.message, lastOp'.text)
                  /\ b.message # <<>>
                  /\ b.location = location
                  /\ b.session_id = ciSessionId
        /\ ( /\ lastOp'.op \in {"sendMessage:return", "ChatInterface.sendMessage:return"}
             /\ Blank(lastOp'.text) )
           => UNCHANGED <<appVars, ciVars, requests>> ]_vars

\* a request is in flight whose message is shorter than the text typed
C7_Witness ==
    /\ appFetch.status = "pending"
    /\ lastOp.op = "sendMessage"
    /\ appFetch.body.message # lastOp.text

\* C8: on a 2xx answer {reply, category?} one bot message with that reply
\* and category is appended directly after the user message of the request;
\* activeCategory becomes the category when there is one and is unchanged
\* otherwise.
C8_ReplyAppended ==
    [][ /\ (lastOp'.op = "sendMessage:settle" /\ lastOp'.resp.status = "ok") =>
              LET resp == lastOp'.resp
                  n == Len(messages')
              IN  /\ n >= 2
                  /\ SubSeq(messages', 1, n - 1) = appFetch.newMessages
                  /\ messages'[n].role = "bot"
                  /\ messages'[n].content = resp.reply
                  /\ messages'[n].category = resp.category
                  /\ messages'[n - 1].role = "user"
                  /\ messages'[n - 1].content = appFetch.body.message
                  /\ activeCategory' = IF resp.category = NoCategory THEN activeCategory
                                       ELSE resp.category
        /\ (lastOp'.op = "ChatInterface.sendMessage:settle" /\ lastOp'.resp.status = "ok") =>
              LET resp == lastOp'.resp
                  n == Len(ciMessages')
              IN  /\ n = Len(ciMessages) + 1
                  /\ SubSeq(ciMessages', 1, n - 1) = ciMessages
                  /\ ciMessages'[n].role = "bot"
                  /\ ciMessages'[n].content = resp.reply
                  /\ ciMessages'[n].category = resp.category
                  /\ ciMessages'[n - 1].role = "user"
                  /\ ciMessages'[n - 1].content = ciFetch.body.message
                  /\ ciActiveCategory' = IF resp.category = NoCategory THEN ciActiveCategory
                                         ELSE resp.category ]_vars

\* an answer without a category has left a category active
C8_Witness ==
    /\ lastOp.op = "sendMessage:settle"
    /\ lastOp.resp.status = "ok"
    /\ lastOp.resp.category = NoCategory
    /\ activeCategory # NoCategory
    /\ messages[Len(messages)].role = "bot"

\* C9 as stated: every failed chat request sets the error banner, asking
\* to try again.
C9_FailureSetsBanner ==
    [][ /\ (lastOp'.op = "sendMessage:settle" /\ lastOp'.resp.status # "ok") =>
              /\ appError' # NoError
              /\ appError'[Len(appError')] = ". Please try again."
        /\ (lastOp'.op = "ChatInterface.sendMessage:settle" /\ lastOp'.resp.status # "ok") =>
              /\ ciError' # NoError
              /\ ciError'[Len(ciError')] = ". Please try again." ]_vars

\* C9 amended: a failed chat request sets the error banner to
\* "Error: <message>. Please try again.", unless the message contains
\* "Failed to fetch" or "ECONNREFUSED": then no banner is set and a
\* "Backend not connected" bot message is appended after the user message.
C9_FailureSurfaced ==
    [][ /\ (lastOp'.op = "sendMessage:settle" /\ lastOp'.resp.status # "ok") =>
              LET message == ChatCaughtMessage(lastOp'.resp)
              IN  IF IsNetworkFailure(message)
                  THEN /\ appError' = NoError
                       /\ messages' = Append(appFetch.newMessages,
                                             BotMsg(BackendNotConnected, NoCategory))
                  ELSE /\ appError' = <<"Error: ">> \o message \o <<". Please try again.">>
                       /\ messages' = messages
        /\ (lastOp'.op = "ChatInterface.sendMessage:settle" /\ lastOp'.resp.status # "ok") =>
              LET message == ChatCaughtMessage(lastOp'.resp)
              IN  IF IsNetworkFailure(message)
                  THEN /\ ciError' = NoError
                       /\ Len(ciMessages') = Len(ciMessages) + 1
                       /\ ciMessages'[Len(ciMessages')].content = BackendNotConnected
                  ELSE /\ ciError' = <<"Error: ">> \o message \o <<". Please try again.">>
                       /\ ciMessages' = ciMessages ]_vars

\* a non-2xx answer without a detail has set the banner
C9_Witness ==
    /\ lastOp.op = "sendMessage:settle"
    /\ lastOp.resp.status = "error"
    /\ appError = <<"Error: ", "Server error: ", "500", ". Please try again.">>

\* the request body as a function of the text, the location and the
\* session id alone
BodyOf(text, loc, sid) == [message |-> Trim(text), location |-> loc, session_id |-> sid]

\* C10: the body of a chat request is determined by the text, the location
\* and the session id; the messages and the chat list have no part in it.
C10_BodyIndependentOfHistory ==
    [][ /\ AppSent => appFetch'.body = BodyOf(lastOp'.text, APP_LOCATION, sessionId)
        /\ ChatInterfaceSent => ciFetch'.body = BodyOf(lastOp'.text, location, ciSessionId) ]_vars

\* a request is sent from a conversation with earlier messages while the
\* chat list holds a chat
C10_Witness ==
    /\ appFetch.status = "pending"
    /\ Len(appFetch.newMessages) > 1
    /\ chatHistory # <<>>

\* ------------------------------------------------------------------------
\* Properties of the chat list and of requests
\* ------------------------------------------------------------------------

\* the chat c as it reads after a round trip through JSON
SameChat(c, d) ==
    /\ d.id = c.id
    /\ d.title = c.title
    /\ d.createdAt = c.createdAt
    /\ Len(d.messages) = Len(c.messages)
    /\ \A i \in 1..Len(c.messages) :
          /\ d.messages[i].role = c.messages[i].role
          /\ d.messages[i].content = c.messages[i].content

WizSent == wizFetch.status # "pending" /\ wizFetch'.status = "pending"

\* C12: a request is issued only by a user's send that is accepted, one
\* request for each; when a request settles, also with a failure, no
\* request is issued in its place.
C12_NoRetry ==
    [][ /\ AppSent <=> lastOp'.op \in {"sendMessage", "handleCategoryClick"}
        /\ AppSent => appFetch = Idle /\ requests' = requests + 1
        /\ ChatInterfaceSent <=>
              lastOp'.op \in {"ChatInterface.sendMessage", "ChatInterface.handleCategoryClick"}
        /\ ChatInterfaceSent => ciFetch = Idle /\ requests' = requests + 1
        /\ WizSent <=> lastOp'.op = "handleGenerate"
        /\ WizSent => wizFetch = Idle
        /\ requests' # requests => AppSent \/ ChatInterfaceSent
        /\ lastOp'.op = "sendMessage:settle" => appFetch' = Idle
        /\ lastOp'.op = "ChatInterface.sendMessage:settle" => ciFetch' = Idle
        /\ lastOp'.op = "handleGenerate:settle" => wizFetch' = Idle ]_vars

\* a chat request has failed with a network error and has settled; nothing
\* is in flight and one request has been sent
C12_Witness ==
    /\ lastOp.op = "sendMessage:settle"
    /\ lastOp.resp.status = "thrown"
    /\ appFetch = Idle
    /\ requests = 1

\* C13: a send attempted while a chat request is in flight, from the input,
\* a quick suggestion or a category click, appends no message and issues no
\* request; a request is issued only when none is in flight.
C13_NoQueueing ==
    [][ /\ ( /\ isLoading
             /\ lastOp'.op \in {"sendMessage", "sendMessage:return",
                                 "handleCategoryClick", "handleCategoryClick:return"} )
           => /\ messages' = messages
              /\ appFetch' = appFetch
              /\ requests' = requests
              /\ isLoading'
        /\ ( /\ ciIsLoading
             /\ lastOp'.op \in {"ChatInterface.sendMessage", "ChatInterface.sendMessage:return",
                                 "ChatInterface.handleCategoryClick",
                                 "ChatInterface.handleCategoryClick:return"} )
           => /\ ciMessages' = ciMessages
              /\ ciFetch' = ciFetch
              /\ requests' = requests
              /\ ciIsLoading'
        /\ appFetch.status = "pending" => isLoading
        /\ ciFetch.status = "pending" => ciIsLoading
        /\ AppSent => ~isLoading /\ appFetch = Idle
        /\ ChatInterfaceSent => ~ciIsLoading /\ ciFetch = Idle ]_vars

\* a text that is not blank was sent while a request is in flight, and was
\* dropped
C13_Witness ==
    /\ lastOp.op = "sendMessage:return"
    /\ ~Blank(lastOp.text)
    /\ isLoading
    /\ appFetch.status = "pending"
    /\ Len(messages) = 1

\* C14: the loading flag is set only while a request is in flight, and the
\* step in which a request settles, with a 2xx answer, another answer or a
\* network failure, resets it; so a flag that is set is reset in the end.
C14_LoadingEnds ==
    /\ [][ /\ lastOp'.op = "sendMessage:settle" => isLoading /\ ~isLoading'
           /\ lastOp'.op = "ChatInterface.sendMessage:settle" => ciIsLoading /\ ~ciIsLoading'
           /\ lastOp'.op = "handleGenerate:settle" => isGenerating /\ ~isGenerating' ]_vars
    /\ [](isLoading => appFetch.status = "pending")
    /\ [](ciIsLoading => ciFetch.status = "pending")
    /\ [](isGenerating => wizFetch.status # "idle")
    /\ (isLoading \/ ciIsLoading \/ isGenerating)
          ~> (~isLoading /\ ~ciIsLoading /\ ~isGenerating)

\* a chat request has failed with a non-2xx answer and isLoading is reset
C14_Witness ==
    /\ lastOp.op = "ChatInterface.sendMessage:settle"
    /\ lastOp.resp.status = "error"
    /\ ~ciIsLoading
    /\ ciError # NoError

\* ------------------------------------------------------------------------
\* Properties of the backend pipeline
\* ------------------------------------------------------------------------

\* /api/chat has answered the request with a 2xx
ChatAnswered ==
    /\ lastOp.op = "api_chat"
    /\ beRequest.endpoint = "chat"
    /\ beResponse.status = 200

\* the localities of the table's pincodes that occur in the text
PincodeLocalities(text) ==
    {PincodeTable[text[i]] : i \in {j \in 1..Len(text) : text[j] \in DOMAIN PincodeTable}}

\* no pincode of the table and no area keyword occurs in the text
Unrecognized(text) ==
    \A i \in 1..Len(text) :
        text[i] \notin DOMAIN PincodeTable /\ Lower(text[i]) \notin DOMAIN AreaTable

\* C15, as stated: for a location that contains a pincode of the table the
\* jurisdiction is the locality of that pincode, whichever pincode of the
\* text is taken; for an unrecognized location it is the default.
C15_EveryPincodeDecides ==
    ChatAnswered =>
        /\ \A l \in PincodeLocalities(beRequest.location) : beResponse.jurisdiction = l
        /\ Unrecognized(beRequest.location) => beResponse.jurisdiction = DefaultLocality

\* C15, amended: the resolution always gives a locality; when the pincodes
\* of the table that occur in the location all map to one locality, it is
\* that locality, whatever else the text holds; when several occur it is
\* the locality of one of them; for an unrecognized location it is the
\* default.
C15_JurisdictionResolved ==
    ChatAnswered =>
        LET ls == PincodeLocalities(beRequest.location)
        IN  /\ ls # {} => beResponse.jurisdiction \in ls
            /\ Unrecognized(beRequest.location) => beResponse.jurisdiction = DefaultLocality
            /\ beResponse.jurisdiction \in
                  {PincodeTable[k] : k \in DOMAIN PincodeTable}
                  \cup {AreaTable[k] : k \in DOMAIN AreaTable} \cup {DefaultLocality}

\* a location with the keyword of one area and the pincode of another is
\* resolved by its pincode
C15_Witness ==
    /\ ChatAnswered
    /\ beRequest.location = <<"whitefield", "560034">>
    /\ beResponse.jurisdiction = "Koramangala, Bengaluru"

\* the categories that have a keyword in the message
HitCategories(message) ==
    {CategoryOrder[k] : k \in {j \in 1..Len(CategoryOrder) :
                                   FirstIn(message, Keywords[CategoryOrder[j]]) > 0}}

\* the categories of the keywords of the message that belong to one
\* category only
ExclusiveCategories(message) ==
    {c \in HitCategories(message) :
        \E i \in 1..Len(message) :
            /\ Lower(message[i]) \in Keywords[c]
            /\ \A k \in 1..Len(CategoryOrder) :
                  Lower(message[i]) \in Keywords[CategoryOrder[k]] => CategoryOrder[k] = c}

C17_LawyersMatch ==
    [][ /\ directory' = directory
        /\ ChatAnswered' =>
              LET category == beResponse'.category
                  lawyers == beResponse'.lawyers
              IN  (\E i \in 1..Len(directory) : directory[i].specialty = category)
                  => /\ lawyers # <<>>
                     /\ \A i \in 1..Len(lawyers) :
                           \/ lawyers[i][2] = category
                           \/ lawyers[i][2] = "general"
                           \/ lawyers[i][3] = "free" ]_vars

\* a property question has been answered with the two property lawyers
C17_Witness ==
    /\ ChatAnswered
    /\ beResponse.category = "property"
    /\ Len(beResponse.lawyers) = 2
    /\ directory = LawyerDirectory

\* C18: a valid request is answered 2xx with canned content flagged as mock
\* when no credentials are configured or the call of the hosted model fails;
\* no answer carries a failure of the hosted model.
C18_DegradesToMock ==
    ( /\ lastOp.op \in {"api_chat", "api_rights_card"}
      /\ Degraded(credentials, lastOp.upstream) )
    => /\ ValidRequest(beRequest) =>
             /\ beResponse.status = 200
             /\ beResponse.is_mock
             /\ beRequest.endpoint = "chat" => beResponse.reply = <<"canned advice">>
             /\ beRequest.endpoint = "rights-card" => beResponse.rights = <<"canned right">>
       /\ beResponse.status \in {200, 422}

\* credentials are configured, the call of the hosted model has failed and
\* the card request is answered with the canned card
C18_Witness ==
    /\ lastOp.op = "api_rights_card"
    /\ credentials
    /\ lastOp.upstream = "fails"
    /\ beResponse.status = 200
    /\ beResponse.is_mock


\* ------------------------------------------------------------------------
\* Properties of the stored chats of NyayMitraApp
\* ------------------------------------------------------------------------

\* the ids of the chats in the persisted store
StoredIds == {loadChats(stored)[i].id : i \in 1..Len(loadChats(stored))}

\* handleDeleteChat(id) has just run
Deleted(id) == lastOp.op = "handleDeleteChat" /\ lastOp.id = id

\* no entry with that id, in the chat list or in the store
Gone(id) == id \notin ChatIds /\ id \notin StoredIds

\* a request sent from the chat with that id is in flight
InFlightFrom(id) == appFetch.status = "pending" /\ appFetch.activeChatId = id

\* C20: handleDeleteChat(id) leaves no entry with that id in chatHistory or
\* in the persisted store, and a deleted id stays gone: no step brings back
\* an id that has just been deleted, or one that is gone while a request
\* sent from its chat is still in flight
C20_DeletedStaysDeleted ==
    [][\A id \in AllChatIds :
          /\ Deleted(id)' => Gone(id)'
          /\ Gone(id) /\ (Deleted(id) \/ InFlightFrom(id)) => Gone(id)']_vars

\* a message list with every timestamp read back as a Date
Dated(msgs) == [i \in 1..Len(msgs) |-> DateOfMsg(msgs[i])]

IsPrefix(a, b) == Len(a) <= Len(b) /\ SubSeq(b, 1, Len(a)) = a

\* C19: a stored chat only receives messages of its own conversation:
\* whenever the entry of a chat is rewritten, what it held before is the
\* beginning of what it holds afterwards - no step puts the conversation of
\* another chat in its place
C19_OwnConversation ==
    [][\A i \in 1..Len(chatHistory) : \A j \in 1..Len(chatHistory') :
          chatHistory[i].id = chatHistory'[j].id
              => IsPrefix(Dated(chatHistory[i].messages),
                          Dated(chatHistory'[j].messages))]_vars


\* ------------------------------------------------------------------------
\* Properties of the wizard while a request is in flight
\* ------------------------------------------------------------------------

\* C21: whenever the wizard shows a card (step "result"), the card was
\* generated for the situation and the language that are selected now
C21_CardMatchesSelection ==
    step = "result" /\ cardData # NoCard
        => /\ cardData.situation = selectedSituation
           /\ cardData.language = selectedLanguage


\* C22: handleNewChat empties the displayed conversation, resets
\* activeChatId, activeCategory and the error and leaves chatHistory and the
\* store alone; and the step that follows New Chat leaves the conversation
\* empty unless it is the user who sends a message or opens a stored chat
C22_NewChatStaysEmpty ==
    [][ /\ lastOp'.op = "handleNewChat"
            => /\ messages' = <<>>
               /\ activeChatId' = NoChatId
               /\ activeCategory' = NoCategory
               /\ appError' = NoError
               /\ chatHistory' = chatHistory
               /\ stored' = stored
        /\ lastOp.op = "handleNewChat" /\ messages' # <<>>
            => lastOp'.op \in {"sendMessage", "handleCategoryClick", "handleSelectChat"} ]_vars


\* ------------------------------------------------------------------------
\* Properties of the persisted chat list
\* ------------------------------------------------------------------------

\* the chat list was changed by a handler, not by loading it
ListChanged == chatHistory' # chatHistory /\ lastOp'.op # "remount"

\* C23 as stated: what is stored mirrors chatHistory after every change, a
\* missing or unreadable value goes with the empty list, and loading on
\* mount restores exactly the list the page held when it was last saved
C23_ReloadRestoresExactly ==
    /\ [][ListChanged => stored' = saveChats(chatHistory')]_vars
    /\ [](stored \in {NoItem, Unreadable} => chatHistory = <<>>)
    /\ [][lastOp'.op = "remount" => chatHistory' = chatHistory]_vars

\* C23: what is stored mirrors chatHistory after every change, a missing or
\* unreadable value goes with the empty list, and loading on mount restores
\* the list that was last saved in its JSON form: the same entries in the
\* same order, every message timestamp a string instead of a Date
C23_StoreMirrorsHistory ==
    /\ [][ListChanged => stored' = saveChats(chatHistory')]_vars
    /\ [](stored \in {NoItem, Unreadable} => chatHistory = <<>>)
    /\ [](stored \notin {NoItem, Unreadable} => stored = saveChats(chatHistory))
    /\ [][lastOp'.op = "remount"
            => chatHistory' = JsonOfChats(chatHistory) /\ stored' = stored]_vars

\* the page has been loaded again after a chat was saved: the list is the
\* stored one, with the timestamps as strings
C23_Witness ==
    /\ lastOp.op = "remount"
    /\ Len(chatHistory) = 1
    /\ chatHistory[1].messages[1].timestamp = "string"
    /\ stored = saveChats(chatHistory)


\* ------------------------------------------------------------------------
\* Properties of saveCurrentChat
\* ------------------------------------------------------------------------

\* the first user message of a list, <<>> if it has none
FirstUserContent(msgs) ==
    IF \E i \in 1..Len(msgs) : msgs[i].role = "user"
    THEN msgs[CHOOSE i \in 1..Len(msgs) :
                 /\ msgs[i].role = "user"
                 /\ \A j \in 1..(i - 1) : msgs[j].role # "user"].content
    ELSE <<>>

\* the title is the first 50 characters of the text, followed by "..."
\* exactly when the text is longer than 50 characters
IsTitleOf(title, c) ==
    IF Len(c) > 50
    THEN /\ Len(title) = 51
         /\ \A i \in 1..50 : title[i] = c[i]
         /\ title[51] = "..."
    ELSE title = c

\* the entry e holds msgs under the title of their first user message
Holds(e, msgs) ==
    /\ e.messages = msgs
    /\ (\E i \in 1..Len(msgs) : msgs[i].role = "user")
          => IsTitleOf(e.title, FirstUserContent(msgs))

\* C24: saveCurrentChat(msgs) is an upsert keyed by chat id: with empty msgs
\* nothing changes; an entry with the captured chat id is replaced in place,
\* keeping its position and createdAt; otherwise exactly one entry is
\* prepended; the other entries are untouched and the ids stay pairwise
\* distinct; the title is cut from the first user message
C24_Upsert ==
    /\ [][lastOp'.op = "saveCurrentChat" =>
            LET msgs == lastOp'.msgs
                captured == lastOp'.captured
                n == Len(chatHistory)
            IN  IF msgs = <<>>
                THEN UNCHANGED <<chatHistory, stored, activeChatId>>
                ELSE IF captured \in ChatIds
                THEN /\ Len(chatHistory') = n
                     /\ \E k \in 1..n :
                          /\ chatHistory[k].id = captured
                          /\ chatHistory'[k].id = captured
                          /\ chatHistory'[k].createdAt = chatHistory[k].createdAt
                          /\ Holds(chatHistory'[k], msgs)
                          /\ \A j \in (1..n) \ {k} : chatHistory'[j] = chatHistory[j]
                ELSE /\ Len(chatHistory') = n + 1
                     /\ \A j \in 1..n : chatHistory'[j + 1] = chatHistory[j]
                     /\ Holds(chatHistory'[1], msgs)
                     /\ chatHistory'[1].id \notin ChatIds
                     /\ captured # NoChatId => chatHistory'[1].id = captured ]_vars
    /\ [](\A i \in 1..Len(chatHistory) : \A j \in 1..Len(chatHistory) :
             chatHistory[i].id = chatHistory[j].id => i = j)

\* an existing entry that is not the first has been replaced by messages
\* whose first user message has 51 characters
C24_Witness ==
    /\ lastOp.op = "saveCurrentChat"
    /\ Len(chatHistory) = 2
    /\ chatHistory[2].id = lastOp.captured
    /\ chatHistory[2].messages = lastOp.msgs
    /\ Len(chatHistory[2].title) = 51


\* C25: in the wizard isGenerating is true exactly while a generation
\* request is in flight (sent and not yet handled by the code after the
\* await), and a request is only sent when none is in flight, whatever the
\* user does in between
C25_OneGeneration ==
    /\ [](isGenerating <=> wizFetch.status # "idle")
    /\ [][lastOp'.op = "handleGenerate"
            => wizFetch.status = "idle" /\ wizFetch'.status = "pending"]_vars

\* the modal was closed and opened again, and the user went back to the
\* first step, while the request is still in flight
C25_Witness ==
    /\ lastOp.op = "open"
    /\ step = "select"
    /\ isGenerating
    /\ wizFetch.status = "pending"


\* ------------------------------------------------------------------------
\* Properties of GradientAIChatInput
\* ------------------------------------------------------------------------

\* the step is a submit: handleSubmit, or Enter without Shift in the textarea
Submitted ==
    \/ lastOp'.op = "handleSubmit"
    \/ lastOp'.op = "handleKeyDown" /\ lastOp'.key = "Enter" /\ ~lastOp'.shiftKey

\* C26: a submit calls onSend exactly once, with the trimmed text as its
\* only argument, and clears the text, if and only if the text is not blank,
\* onSend is provided and the input is not disabled; otherwise it calls
\* nothing and keeps the text; the selected option and the attached files
\* are neither passed nor changed
C26_SubmitSendsTrimmed ==
    [][Submitted =>
          /\ IF ~Blank(inputMessage) /\ onSend /\ ~disabled
             THEN /\ Len(lastOp'.calls) = 1
                  /\ Len(lastOp'.calls[1]) = 1
                  /\ IsTrimOf(lastOp'.calls[1][1], inputMessage)
                  /\ inputMessage' = <<>>
             ELSE /\ lastOp'.calls = <<>>
                  /\ inputMessage' = inputMessage
          /\ selectedOption' = selectedOption
          /\ attachedFiles' = attachedFiles ]_vars

\* a text with blanks around it was submitted while an option is selected
\* and a file is attached, and onSend got the text without the blanks
C26_Witness ==
    /\ lastOp.op = "handleSubmit"
    /\ lastOp.calls = << << <<"h", "i">> >> >>
    /\ inputMessage = <<>>
    /\ selectedOption # NoOption
    /\ attachedFiles # <<>>


\* ------------------------------------------------------------------------
\* Properties of Sidebar.groupByDate
\* ------------------------------------------------------------------------

\* the start of the day that holds the render's clock
TodayStart ==
    CHOOSE s \in 0..sidebarNow : s % Day = 0 /\ s <= sidebarNow /\ sidebarNow < s + Day

\* the label the chat belongs under, by its createdAt
LabelFor(chat) ==
    LET d == chat.createdAt
    IN  IF d.kind = "date" /\ d.t >= TodayStart THEN "Today"
        ELSE IF d.kind = "date" /\ d.t >= TodayStart - Day THEN "Yesterday"
        ELSE IF d.kind = "date" /\ d.t >= TodayStart - 7 * Day THEN "Previous 7 Days"
        ELSE "Older"

\* the position of a label in the fixed order
Rank(label) ==
    CASE label = "Today" -> 1
      [] label = "Yesterday" -> 2
      [] label = "Previous 7 Days" -> 3
      [] label = "Older" -> 4

\* C27: groupByDate partitions the chat list: every chat is in exactly one
\* group, the one its createdAt selects against the start of today, of
\* yesterday and of the day seven days ago; the groups come in the order
\* Today, Yesterday, Previous 7 Days, Older, none is empty, and inside a
\* group the chats keep the order of the list
C27_GroupsPartition ==
    lastOp.op = "groupByDate" =>
        /\ \A i \in 1..Len(sidebarHistory) :
              \E g \in 1..Len(groups) :
                 /\ groups[g].label = LabelFor(sidebarHistory[i])
                 /\ Cardinality({k \in 1..Len(groups[g].chats) :
                                    groups[g].chats[k] = sidebarHistory[i]}) = 1
                 /\ \A h \in (1..Len(groups)) \ {g} :
                       \A k \in 1..Len(groups[h].chats) :
                          groups[h].chats[k] # sidebarHistory[i]
        /\ \A g \in 1..Len(groups) :
              /\ groups[g].chats # <<>>
              /\ \A k \in 1..Len(groups[g].chats) :
                    \E i \in 1..Len(sidebarHistory) : groups[g].chats[k] = sidebarHistory[i]
              /\ \A k, l \in 1..Len(groups[g].chats) :
                    k < l => groups[g].chats[k].id < groups[g].chats[l].id
        /\ \A g, h \in 1..Len(groups) :
              g < h => Rank(groups[g].label) < Rank(groups[h].label)

\* two chats, the first created at the start of yesterday and the second
\* at the start of today, are rendered in the second half of the day: two
\* groups, Today first
C27_Witness ==
    /\ lastOp.op = "groupByDate"
    /\ sidebarNow = 8 * Day + 1
    /\ Len(sidebarHistory) = 2
    /\ sidebarHistory[1].createdAt = DateOf(7 * Day)
    /\ sidebarHistory[2].createdAt = DateOf(8 * Day)
    /\ Len(groups) = 2
    /\ groups[1].label = "Today"
    /\ groups[2].label = "Yesterday"

=============================================================================
